---- MODULE Spec2Model ----
(***************************************************************************)
(* A model of the two notebooks of obscode/bootcamp.                       *)
(*                                                                         *)
(*  - the interactive-plotting notebook (src/unnamed/part_000): the cells  *)
(*    that bind the kernel's global names, create figures and widgets and  *)
(*    register callbacks, and the UI events that run those callbacks.      *)
(*    Specification Spec.                                                  *)
(*  - the model-fitting notebook (src/MoreNotebooks/ModelFitting/          *)
(*    NLLS.ipynb): the cells of one "Run All", repeated.                   *)
(*    Specification FitSpec.                                               *)
(*                                                                         *)
(* A notebook's functions read the kernel's globals when they are CALLED,  *)
(* not when they are defined: a callback's p, fig, line, image, sp and ext *)
(* are whatever the most recently run cell bound to these names.           *)
(***************************************************************************)
EXTENDS Integers, Sequences, FiniteSets, TLC

(***************************************************************************)
(* Bounds of the model (sizes of the downloaded data, number of marks).    *)
(***************************************************************************)
\* rows (zl) and columns (xl) of the downloaded image
ImgRows == 300
ImgCols == 301
\* the remote query returns this many spectra, or one fewer
MaxSpectra == 2
\* samples of the first spectrum; spectrum k has SpecLenBase + k samples
SpecLenBase == 3800
\* most marker artists the figures hold together
MaxMarks == 2
\* most thumb positions one drag passes through before the release
MaxMoves == 2
\* most UI gestures (key presses, drags, checkbox clicks) of one session
MaxEvents == 2

(***************************************************************************)
(* Program constants.                                                      *)
(***************************************************************************)
\* slice = image[150,:] and IntSlider(value=150, ...)
InitRow == 150

None == "none"

\* the cells that create a figure; a figure is named after its cell
FigCells == {"show", "event", "output", "gui", "slice", "zaxis",
             "spec0", "spec1", "spec2"}
Sliders == {"zslider", "s1slider", "s2slider"}
Widgets == Sliders \cup {"chk_box"}
Keys == {"m", "x"}

VARIABLES
    g,        \* the kernel's global names that cells and callbacks read
    figs,     \* figure (cell) -> [exists, handlers, lines]
    widgets,  \* widget -> [exists, value, min, max, handlers]
    drag,     \* the slider being dragged and its thumb position, or NoDrag
    ev,       \* the last UI event delivered
    invoked,  \* the callbacks that event ran, in order, with their argument
    draws,    \* the canvas draws those callbacks issued
    err,      \* the exception that escaped the callbacks of that event
    pc,       \* the next cell of the interactive notebook to run
    used,     \* the UI gestures (key press, drag, click) made so far
    lastReg,  \* the key-press callback registered last, on whatever figure
    nb        \* the model-fitting notebook's state

vars == <<g, figs, widgets, drag, ev, invoked, draws, err, pc, used, lastReg, nb>>

\* the cells of the interactive notebook that bind names or create objects
CellOrder == <<"load", "show", "event", "output", "gui", "slice", "zaxis",
               "query", "spec0", "spec1", "spec2">>

(***************************************************************************)
(* Data behind the plotted lines.                                          *)
(***************************************************************************)
Src(s, i) == [src |-> s, idx |-> i]

\* len(sp[k][ext].data) for ext = 1
SpLen(k) == SpecLenBase + k

Line(role, xs, xl, ys, yl, from) ==
    [role |-> role, xsrc |-> xs, xlen |-> xl, ysrc |-> ys, ylen |-> yl,
     visible |-> TRUE, from |-> from]

\* p.plot(slice): x defaults to range(len(slice))
SliceLine == Line("data", Src("range", ImgCols), ImgCols,
                  Src("image", InitRow), ImgCols, None)

\* ax.plot(wave, spec) with pf = sp[0]
SpecLine == Line("data", Src("wave", 0), SpLen(0), Src("flux", 0), SpLen(0), None)

\* line2, = ax.plot([6563,6563],[0,20],"--",c="r"); line2.set_visible(False)
HalphaLine == [Line("vline", Src("const", 0), 2, Src("const", 0), 2, None)
                 EXCEPT !.visible = FALSE]

\* p.plot(xc, yc, 'ro', markersize=5) for a key press on figure f
MarkLine(f) == Line("mark", Src("event", 0), 1, Src("event", 0), 1, f)

NoFigure == [exists |-> FALSE, handlers |-> <<>>, lines |-> <<>>]
NoWidget == [exists |-> FALSE, value |-> 0, min |-> 0, max |-> 0, handlers |-> <<>>]
NoDrag == [w |-> None, thumb |-> 0, moves |-> 0]
NoEvent == [kind |-> None, target |-> None, key |-> None, old |-> 0, new |-> 0,
            moves |-> 0]
\* a key pressed with the pointer inside the axes of figure f, or outside them
KeyEvent(f, k, inside) == [target |-> f, key |-> k, inside |-> inside, new |-> 0]

NumMarks(F) ==
    LET n(f) == Cardinality({i \in DOMAIN F[f].lines : F[f].lines[i].role = "mark"})
        RECURSIVE Sum(_)
        Sum(S) == IF S = {} THEN 0
                  ELSE LET f == CHOOSE x \in S : TRUE IN n(f) + Sum(S \ {f})
    IN Sum(FigCells)

(***************************************************************************)
(* The plotting and widget libraries, as the notebook calls them.          *)
(***************************************************************************)
\* plt.figure(...): a new figure each time it is called; running a cell
\* again replaces the figure its output showed
PltFigureReuse(F, c) ==
    IF F[c].exists THEN F
    ELSE [F EXCEPT ![c] = [exists |-> TRUE, handlers |-> <<>>, lines |-> <<>>]]

PltFigure(F, c) ==
    [F EXCEPT ![c] = [exists |-> TRUE, handlers |-> <<>>, lines |-> <<>>]]

\* fig.canvas.mpl_connect('key_press_event', cb): adds cb to the figure's callbacks
MplConnect(F, c, cb) == [F EXCEPT ![c].handlers = Append(@, cb)]

\* p.plot(...) / ax.plot(...): adds one Line2D artist to the axes
AxPlot(F, c, l) == [F EXCEPT ![c].lines = Append(@, l)]

\* continuous_update=False in all three IntSlider(...) calls
continuous_update_on == TRUE

continuous_update == FALSE

\* widgets.IntSlider(value=v, min=0, max=mx, step=1, continuous_update=False)
IntSlider(v, mx) ==
    [exists |-> TRUE, value |-> v, min |-> 0, max |-> mx, handlers |-> <<>>]

\* widgets.Checkbox(value=False)
Checkbox == [exists |-> TRUE, value |-> 0, min |-> 0, max |-> 1, handlers |-> <<>>]

\* widget.observe(cb, 'value')
Observe(W, w, cb) == [W EXCEPT ![w].handlers = Append(@, cb)]

\* line.set_xdata / line.set_ydata; a global line is the first artist of its axes
SetX(F, l, s, n) == [F EXCEPT ![l].lines[1].xsrc = s, ![l].lines[1].xlen = n]
SetY(F, l, s, n) == [F EXCEPT ![l].lines[1].ysrc = s, ![l].lines[1].ylen = n]

\* what a callback leaves behind: the figures, the exception it raised, its draws
Outcome(F, e, d) == [figs |-> F, err |-> e, draws |-> d]

\* fig.canvas.draw() issued by callback cb: every visible line is redrawn, and a
\* line whose x and y differ in length raises; the callback plots artist k of axes l
CanvasDraw(cb, G, F, l, k) ==
    LET L == F[G.fig].lines
        bad == \E i \in DOMAIN L : L[i].visible /\ L[i].xlen # L[i].ylen
        ln == F[l].lines[k]
        rec == [by |-> cb, fig |-> G.fig, line |-> l, xlen |-> ln.xlen,
                ylen |-> ln.ylen, xsrc |-> ln.xsrc, ysrc |-> ln.ysrc]
    IN Outcome(F, IF bad THEN "RuntimeError" ELSE None, <<rec>>)

(***************************************************************************)
(* The callbacks.                                                          *)
(***************************************************************************)
\* def on_key_press(event) of the "Add an event" and "Add output" cells:
\* plots on the GLOBAL p; fig.canvas.draw_idle is named, not called
on_key_press(G, F, a) ==
    IF a.key = "m"
    THEN IF ~a.inside
         THEN Outcome(F, "ValueError", <<>>)      \* xc, yc are None
         ELSE Outcome(AxPlot(F, G.p, MarkLine(a.target)), None, <<>>)
    ELSE Outcome(F, None, <<>>)

\* GUI_inter.on_key_press: plots on self.p, the axes of G's own figure
GUI_on_key_press(G, F, a) ==
    IF a.key = "m"
    THEN IF ~a.inside
         THEN Outcome(F, "ValueError", <<>>)
         ELSE Outcome(AxPlot(F, "gui", MarkLine(a.target)), None, <<>>)
    ELSE Outcome(F, None, <<>>)

\* a variant that empties the line before it loads the new row
updateClearFirst(G, F, a) ==
    LET F0 == SetY(F, G.line, Src("empty", 0), 0)
    IN IF a.new \notin 0..(ImgRows - 1)
       THEN Outcome(F0, "IndexError", <<>>)
       ELSE CanvasDraw("update", G, SetY(F0, G.line, Src("image", a.new), ImgCols), G.line, 1)

\* def update(change): line.set_ydata(image[change.new,:]); fig.canvas.draw()
update(G, F, a) ==
    IF a.new \notin 0..(ImgRows - 1)
    THEN Outcome(F, "IndexError", <<>>)
    ELSE CanvasDraw("update", G, SetY(F, G.line, Src("image", a.new), ImgCols), G.line, 1)

\* a variant that plots the new spectrum instead of updating the line
new_spec_replot(G, F, a) ==
    IF a.new \notin 0..(G.sp - 1)
    THEN Outcome(F, "IndexError", <<>>)
    ELSE IF G.ext # 1
    THEN Outcome(F, "TypeError", <<>>)
    ELSE CanvasDraw("new_spec", G,
             AxPlot(F, G.line, Line("data", Src("wave", a.new), SpLen(a.new),
                                    Src("flux", a.new), SpLen(a.new), None)),
             G.line, 1)

\* def new_spec(change): pf = sp[change.new]; tab = pf[ext].data;
\* line.set_xdata(wave); line.set_ydata(spec); fig.canvas.draw()
\* (the primary HDU, ext = 0, of a spectrum file holds no table)
new_spec(G, F, a) ==
    IF a.new \notin 0..(G.sp - 1)
    THEN Outcome(F, "IndexError", <<>>)
    ELSE IF G.ext # 1
    THEN Outcome(F, "TypeError", <<>>)
    ELSE LET F1 == SetX(F, G.line, Src("wave", a.new), SpLen(a.new))
             F2 == SetY(F1, G.line, Src("flux", a.new), SpLen(a.new))
         IN CanvasDraw("new_spec", G, F2, G.line, 1)

\* def display_lines(change): line2.set_visible(change.new); fig.canvas.draw()
display_lines(G, F, a) ==
    LET F1 == [F EXCEPT ![G.line2].lines[2].visible = (a.new # 0)]
    IN CanvasDraw("display_lines", G, F1, G.line2, 2)

Callbacks == {"on_key_press", "on_key_press_out", "G.on_key_press", "update",
              "new_spec", "display_lines"}

Call(cb, G, F, a) ==
    CASE cb = "on_key_press"     -> on_key_press(G, F, a)
      [] cb = "on_key_press_out" -> on_key_press(G, F, a)
      [] cb = "G.on_key_press"   -> GUI_on_key_press(G, F, a)
      [] cb = "update"           -> update(G, F, a)
      [] cb = "new_spec"         -> new_spec(G, F, a)
      [] cb = "display_lines"    -> display_lines(G, F, a)

\* an event runs, one after the other and to completion, every callback
\* registered on the object that receives it
RECURSIVE RunHandlers(_, _, _, _)
RunHandlers(hs, G, F, a) ==
    IF hs = <<>> THEN [figs |-> F, err |-> None, draws |-> <<>>, invoked |-> <<>>]
    ELSE LET r == Call(Head(hs), G, F, a)
             rest == RunHandlers(Tail(hs), G, r.figs, a)
         IN [figs |-> rest.figs,
             err |-> IF r.err # None THEN r.err ELSE rest.err,
             draws |-> r.draws \o rest.draws,
             invoked |-> <<[cb |-> Head(hs), new |-> a.new]>> \o rest.invoked]

(***************************************************************************)
(* The cells, run from the top to the bottom of the notebook; after the    *)
(* last one the reader may run them all again in the same kernel.  UI      *)
(* events arrive between any two cells; nobody runs a cell in the middle   *)
(* of a drag.                                                              *)
(***************************************************************************)
\* ev, invoked, draws and err describe the event delivered since the last cell ran
NoUI ==
    /\ ev' = NoEvent
    /\ invoked' = <<>>
    /\ draws' = <<>>
    /\ err' = None
    /\ UNCHANGED <<drag, used, nb>>

At(c) ==
    /\ drag = NoDrag
    /\ pc <= Len(CellOrder)
    /\ CellOrder[pc] = c
    /\ pc' = pc + 1

\* the cell registers no key-press callback
NoReg == UNCHANGED lastReg

\* Cell -> Run All, once more, in the same kernel
RunAllAgain ==
    /\ drag = NoDrag
    /\ pc = Len(CellOrder) + 1
    /\ pc' = 1
    /\ UNCHANGED <<g, figs, widgets>>
    /\ NoReg
    /\ NoUI

\* ext = 0; pflist = SkyView.get_images(...); image = pf[ext].data
RunLoad ==
    /\ At("load")
    /\ g' = [g EXCEPT !.image = TRUE, !.ext = 0]
    /\ UNCHANGED <<figs, widgets>>
    /\ NoReg
    /\ NoUI

\* "Display an image": fig, p and imshow, no callback
RunShow ==
    /\ At("show")
    /\ figs' = PltFigure(figs, "show")
    /\ g' = [g EXCEPT !.fig = "show", !.p = "show"]
    /\ UNCHANGED widgets
    /\ NoReg
    /\ NoUI

\* "Add an event to the display"
RunEvent ==
    /\ At("event")
    /\ figs' = MplConnect(PltFigure(figs, "event"), "event", "on_key_press")
    /\ g' = [g EXCEPT !.fig = "event", !.p = "event"]
    /\ UNCHANGED widgets
    /\ lastReg' = "on_key_press"
    /\ NoUI

\* "Add output to the display with the event"
RunOutput ==
    /\ At("output")
    /\ figs' = MplConnect(PltFigure(figs, "output"), "output", "on_key_press_out")
    /\ g' = [g EXCEPT !.fig = "output", !.p = "output"]
    /\ UNCHANGED widgets
    /\ lastReg' = "on_key_press_out"
    /\ NoUI

\* fig = plt.figure(...); G = GUI_inter(fig, image); mpl_connect(G.on_key_press)
\* (p is not rebound: the axes are G.p)
RunGui ==
    /\ At("gui")
    /\ figs' = MplConnect(PltFigure(figs, "gui"), "gui", "G.on_key_press")
    /\ g' = [g EXCEPT !.fig = "gui"]
    /\ UNCHANGED widgets
    /\ lastReg' = "G.on_key_press"
    /\ NoUI

\* "Interactive 1D data": slice = image[150,:]; p.plot(slice)
RunSlice ==
    /\ At("slice")
    /\ figs' = AxPlot(PltFigure(figs, "slice"), "slice", SliceLine)
    /\ g' = [g EXCEPT !.fig = "slice", !.p = "slice"]
    /\ UNCHANGED widgets
    /\ NoReg
    /\ NoUI

\* the Z-axis cell: line, = p.plot(slice); IntSlider(value=150, min=0, max=zl)
RunZaxis ==
    /\ At("zaxis")
    /\ figs' = AxPlot(PltFigure(figs, "zaxis"), "zaxis", SliceLine)
    /\ g' = [g EXCEPT !.fig = "zaxis", !.p = "zaxis", !.line = "zaxis"]
    /\ widgets' = Observe([widgets EXCEPT !["zslider"] = IntSlider(InitRow, ImgRows)],
                          "zslider", "update")
    /\ NoReg
    /\ NoUI

\* xid = SDSS.query_region(...); sp = SDSS.get_spectra(matches=xid)
RunQuery ==
    /\ At("query")
    /\ \E n \in {MaxSpectra - 1, MaxSpectra} : g' = [g EXCEPT !.sp = n]
    /\ UNCHANGED <<figs, widgets>>
    /\ NoReg
    /\ NoUI

\* pf = sp[0]; ext = 1; ...; ax.plot(wave,spec)
RunSpec0 ==
    /\ At("spec0")
    /\ figs' = AxPlot(PltFigure(figs, "spec0"), "spec0", SpecLine)
    /\ g' = [g EXCEPT !.fig = "spec0", !.ext = 1]
    /\ UNCHANGED widgets
    /\ NoReg
    /\ NoUI

\* the first Spectrum cell: n_max = len(sp)-1; line, = ax.plot(wave,spec);
\* IntSlider(value=0, min=0, max=n_max); observe(new_spec)
RunSpec1 ==
    /\ At("spec1")
    /\ figs' = AxPlot(PltFigure(figs, "spec1"), "spec1", SpecLine)
    /\ g' = [g EXCEPT !.fig = "spec1", !.ext = 1, !.line = "spec1"]
    /\ widgets' = Observe([widgets EXCEPT !["s1slider"] = IntSlider(0, g.sp - 1)],
                          "s1slider", "new_spec")
    /\ NoReg
    /\ NoUI

\* the checkbox cell: as the Spectrum cell, plus line2 (hidden) and chk_box
RunSpec2 ==
    /\ At("spec2")
    /\ figs' = AxPlot(AxPlot(PltFigure(figs, "spec2"), "spec2", SpecLine),
                      "spec2", HalphaLine)
    /\ g' = [g EXCEPT !.fig = "spec2", !.ext = 1, !.line = "spec2", !.line2 = "spec2"]
    /\ widgets' = Observe(Observe([widgets EXCEPT !["s2slider"] = IntSlider(0, g.sp - 1),
                                                  !["chk_box"] = Checkbox],
                                  "s2slider", "new_spec"),
                          "chk_box", "display_lines")
    /\ NoReg
    /\ NoUI

(***************************************************************************)
(* The UI events.                                                          *)
(***************************************************************************)
\* the event reaches the callbacks registered on its target, synchronously;
\* a is what the callbacks are passed, e what the history keeps of the event
Deliver(hs, a, e) ==
    LET r == RunHandlers(hs, g, figs, a)
    IN /\ ev' = e
       /\ figs' = r.figs
       /\ invoked' = r.invoked
       /\ draws' = r.draws
       /\ err' = r.err

\* a key pressed with the pointer over figure f, inside its axes or not
KeyPress(f, k, inside) ==
    /\ figs[f].exists
    /\ used < MaxEvents
    /\ used' = used + 1
    /\ k = "m" => NumMarks(figs) < MaxMarks
    /\ Deliver(figs[f].handlers, KeyEvent(f, k, inside),
               [NoEvent EXCEPT !.kind = "key", !.target = f, !.key = k])
    /\ UNCHANGED <<g, widgets, drag, pc, lastReg, nb>>

\* the thumb positions the model tries
Stops(w) ==
    IF w = "zslider" THEN {widgets[w].min, InitRow, widgets[w].max}
    ELSE {widgets[w].min, widgets[w].max}

\* the kernel's value of widget w becomes v: observers of 'value' are
\* notified of a change, and of nothing when v is the value it has
SetValue(w, e) ==
    IF e.new # widgets[w].value
    THEN /\ widgets' = [widgets EXCEPT ![w].value = e.new]
         /\ Deliver(widgets[w].handlers, e, e)
    ELSE /\ ev' = e
         /\ invoked' = <<>>
         /\ draws' = <<>>
         /\ err' = None
         /\ UNCHANGED <<widgets, figs>>

\* the thumb of slider w is dragged to v, the mouse button still down
DragMove(w, v) ==
    /\ widgets[w].exists
    /\ \/ drag = NoDrag /\ used < MaxEvents /\ used' = used + 1
       \/ drag # NoDrag /\ drag.w = w /\ used' = used
    /\ drag.moves < MaxMoves
    /\ v \in Stops(w)
    /\ v # (IF drag = NoDrag THEN widgets[w].value ELSE drag.thumb)
    /\ drag' = [w |-> w, thumb |-> v, moves |-> drag.moves + 1]
    /\ LET e == [NoEvent EXCEPT !.kind = "move", !.target = w,
                                !.old = widgets[w].value, !.new = v,
                                !.moves = drag.moves + 1]
       IN IF continuous_update
          THEN SetValue(w, e)
          ELSE /\ ev' = e
               /\ invoked' = <<>>
               /\ draws' = <<>>
               /\ err' = None
               /\ UNCHANGED <<widgets, figs>>
    /\ UNCHANGED <<g, pc, lastReg, nb>>

\* the mouse button is released: the drag is complete
Release ==
    /\ drag # NoDrag
    /\ used' = used
    /\ drag' = NoDrag
    /\ SetValue(drag.w, [NoEvent EXCEPT !.kind = "release", !.target = drag.w,
                                        !.old = widgets[drag.w].value,
                                        !.new = drag.thumb, !.moves = drag.moves])
    /\ UNCHANGED <<g, pc, lastReg, nb>>

\* the checkbox is clicked
Toggle ==
    /\ widgets["chk_box"].exists
    /\ used < MaxEvents
    /\ used' = used + 1
    /\ SetValue("chk_box", [NoEvent EXCEPT !.kind = "toggle", !.target = "chk_box",
                                           !.old = widgets["chk_box"].value,
                                           !.new = 1 - widgets["chk_box"].value])
    /\ UNCHANGED <<g, drag, pc, lastReg, nb>>

(***************************************************************************)
(* The model-fitting notebook.  Parameter values are in tenths (center =   *)
(* 5.0 is 50); counts are whole numbers.  What a fit returns for given     *)
(* data is the optimiser's business: the model draws it from FitOutcomes.  *)
(***************************************************************************)
\* the true parameters of the first cell, in tenths
Cont_zp == 5000
Cont_slope == 50
Amplitude == 300
Width == 5
Center == 50

\* channels of the wavelength grid the model keeps
NChan == 2

\* np.random.poisson(flux): counts near the continuum, whole squares so that
\* sigma = np.sqrt(obs_flux) is exact
Counts == {22 * 22, 23 * 23}

Sqrt(n) == CHOOSE r \in 0..n : r * r <= n /\ n < (r + 1) * (r + 1)

\* what each name stands for in
\* flux = amplitude*exp(-0.5*(wave-center)^2/width^2) + cont_zp + cont_slope*wave
TrueRole(name) ==
    CASE name = "amplitude"  -> "amplitude"
      [] name = "center"     -> "center"
      [] name = "width"      -> "width"
      [] name = "cont_zp"    -> "zeropoint"
      [] name = "cont_slope" -> "slope"

\* what each parameter stands for in the body of model:
\* amp*np.exp(-0.5*np.power(x-center,2)/width**2) + cont + slope*x
ModelRole(name) ==
    CASE name = "amp"    -> "amplitude"
      [] name = "center" -> "center"
      [] name = "width"  -> "width"
      [] name = "cont"   -> "zeropoint"
      [] name = "slope"  -> "slope"

\* a model with a constant continuum, and its initial guess
FitCallNoSlope ==
    [signature |-> <<"cont", "amp", "center", "width">>,
     p0 |-> <<4250, 800, 45, 10>>]

\* the continuum parameters in the other order, the initial guess unchanged
FitCallSlopeFirst ==
    [signature |-> <<"slope", "cont", "amp", "center", "width">>,
     p0 |-> <<4250, 0, 800, 45, 10>>]

\* def model(x, cont, slope, amp, center, width) and p0=(425.,0.0,80.,4.5,1.0)
FitCall ==
    [signature |-> <<"cont", "slope", "amp", "center", "width">>,
     p0 |-> <<4250, 0, 800, 45, 10>>]

\* the values a fit may return for a free parameter
FitOutcomes(role) ==
    CASE role = "amplitude" -> {-Amplitude, Amplitude}
      [] role = "center"    -> {Center - 5, Center}
      [] role = "width"     -> {Width}
      [] role = "zeropoint" -> {Cont_zp}
      [] role = "slope"     -> {Cont_slope}

\* the vectors a fit may return for the first k parameters of a signature
RECURSIVE FitVectors(_, _)
FitVectors(sig, k) ==
    IF k = 0 THEN {<<>>}
    ELSE {Append(v, x) : v \in FitVectors(sig, k - 1),
                         x \in FitOutcomes(ModelRole(sig[k]))}

\* curve_fit(f, xdata, ydata, p0, sigma): the parameter vector has len(p0)
\* entries; entry i is passed to f as its argument i after x, so it is the
\* parameter that f's signature names there.  popt, then pcov (n by n).
CurveFitResults(call) ==
    LET n == Len(call.p0)
        role(i) == ModelRole(call.signature[i])
    IN IF n # Len(call.signature) THEN {}        \* TypeError: f() arguments
       ELSE { [popt |-> [i \in 1..n |-> [role |-> role(i), val |-> v[i]]],
               pcov |-> [i \in 1..n |-> [j \in 1..n |->
                            [row |-> role(i), col |-> role(j)]]]] :
              v \in FitVectors(call.signature, n) }

\* the per-channel uncertainties a fit weighs its residuals with:
\* curve_fit is given sigma=np.sqrt(obs_flux)
CurveFitSigma(obs) == [i \in DOMAIN obs |-> Sqrt(obs[i])]

\* fitter(model, wave, obs_flux): no weights are given, every residual counts as is
AstropySigma(obs) == [i \in DOMAIN obs |-> 1]

\* what each parameter of Gaussian1D + Linear1D stands for
AstropyRole(name) ==
    CASE name = "amplitude_0" -> "amplitude"
      [] name = "mean_0"      -> "center"
      [] name = "stddev_0"    -> "width"
      [] name = "slope_1"     -> "slope"
      [] name = "intercept_1" -> "zeropoint"

ParamNames == {"amplitude_0", "mean_0", "stddev_0", "slope_1", "intercept_1"}
Roles == {"amplitude", "center", "width", "slope", "zeropoint"}
\* a parameter without a lower limit; a limit b is <<b>>
NoBound == <<>>

\* line = models.Gaussian1D(amplitude=80., mean=4.5, stddev=1.0)
\* continuum = models.Linear1D(slope=0.0, intercept=425.); model = line + continuum
AstropyModel ==
    [value |-> [amplitude_0 |-> 800, mean_0 |-> 45, stddev_0 |-> 10,
                slope_1 |-> 0, intercept_1 |-> 4250],
     fixed |-> {},
     min |-> [n \in ParamNames |-> NoBound]]

\* fitting.LevMarLSQFitter()(m, x, y): a copy of m in which every parameter
\* that is not fixed has its fitted value, kept at or above its lower limit
LevMarLSQFitter(m) ==
    { [m EXCEPT !.value = [n \in ParamNames |->
                              IF n \in m.fixed THEN m.value[n]
                              ELSE IF m.min[n] # NoBound /\ v[n] < m.min[n][1] THEN m.min[n][1]
                              ELSE v[n]]] :
      v \in { [amplitude_0 |-> a, mean_0 |-> c, stddev_0 |-> w, slope_1 |-> sl,
               intercept_1 |-> z] :
              a \in FitOutcomes("amplitude"), c \in FitOutcomes("center"),
              w \in FitOutcomes("width"), sl \in FitOutcomes("slope"),
              z \in FitOutcomes("zeropoint") } }

\* the constraints without the line that fixes mean_0
ConstrainNotFixed(m, c) ==
    [m EXCEPT !.value["mean_0"] = c, !.min["amplitude_0"] = <<0>>]

\* fitmodel.mean_0.fixed = True; fitmodel.mean_0.value = center;
\* fitmodel.amplitude_0.min = 0
Constrain(m, c) ==
    [m EXCEPT !.fixed = @ \cup {"mean_0"}, !.value["mean_0"] = c,
              !.min["amplitude_0"] = <<0>>]

\* the initial values of a fit, by what they stand for
ByRoleCurveFit(call) ==
    [r \in {ModelRole(call.signature[k]) : k \in DOMAIN call.signature} |->
                     LET i == CHOOSE k \in DOMAIN call.signature :
                                  ModelRole(call.signature[k]) = r
                     IN call.p0[i]]
ByRoleAstropy(m) ==
    [r \in Roles |-> LET n == CHOOSE k \in ParamNames : AstropyRole(k) = r
                     IN m.value[n]]

NbCells == <<"data", "defmodel", "curve_fit", "pcor", "ellipse", "amodel",
             "fitter", "constrain">>

NbInit ==
    [pc |-> 1, center |-> 0, width |-> 0, obs |-> <<>>, model |-> None,
     popt |-> <<>>, pcov |-> <<>>, err |-> <<>>, pcor |-> <<>>, ellipse |-> <<>>,
     cfsetup |-> <<>>, amodel |-> <<>>, fitmodel |-> <<>>, amsetup |-> <<>>,
     newmodel |-> <<>>]

NbAt(c) ==
    /\ nb.pc <= Len(NbCells)
    /\ NbCells[nb.pc] = c
    /\ UNCHANGED <<g, figs, widgets, drag, ev, invoked, draws, err, pc, used, lastReg>>

\* the first cell: the true parameters and obs_flux = np.random.poisson(flux)
NbData ==
    /\ NbAt("data")
    /\ \E o \in [1..NChan -> Counts] :
          nb' = [nb EXCEPT !.pc = @ + 1, !.center = Center, !.width = Width, !.obs = o]

\* def model(x, cont, slope, amp, center, width)
NbDefModel ==
    /\ NbAt("defmodel")
    /\ nb' = [nb EXCEPT !.pc = @ + 1, !.model = "function"]

\* popt,pcov = curve_fit(model, wave, obs_flux, p0=..., sigma=np.sqrt(obs_flux))
\* err = np.sqrt(np.diag(pcov))
NbCurveFit ==
    /\ NbAt("curve_fit")
    /\ \E r \in CurveFitResults(FitCall) :
          nb' = [nb EXCEPT !.pc = @ + 1, !.popt = r.popt, !.pcov = r.pcov,
                   !.err = [i \in DOMAIN r.pcov |-> [role |-> r.pcov[i][i].row]],
                   !.cfsetup = <<[form |-> {ModelRole(FitCall.signature[i]) :
                                               i \in DOMAIN FitCall.signature},
                                  y |-> nb.obs,
                                  init |-> ByRoleCurveFit(FitCall),
                                  sigma |-> CurveFitSigma(nb.obs)]>>]

\* pcor = pcov/np.outer(err,err)
NbPcor ==
    /\ NbAt("pcor")
    /\ nb' = [nb EXCEPT !.pc = @ + 1,
                !.pcor = [i \in DOMAIN nb.pcov |-> [j \in DOMAIN nb.pcov[i] |->
                             [num |-> nb.pcov[i][j], den |-> <<nb.err[i], nb.err[j]>>]]]]

\* the ellipse cell: eigh(pcov[0:2,0:2]); width,height = ...; the best fit at
\* (popt[0], popt[1]); axhline(cont_slope); axvline(cont_zp); the labels; the
\* limits popt[0] -+ 4*err[0] and popt[1] -+ 4*err[1].  The global width is rebound.
NbEllipse ==
    /\ NbAt("ellipse")
    /\ nb' = [nb EXCEPT !.pc = @ + 1, !.width = 0,
                !.ellipse = <<[cov |-> <<<<nb.pcov[1][1], nb.pcov[1][2]>>,
                                         <<nb.pcov[2][1], nb.pcov[2][2]>>>>,
                               x |-> nb.popt[1], y |-> nb.popt[2],
                               vline |-> [role |-> TrueRole("cont_zp"), val |-> Cont_zp],
                               hline |-> [role |-> TrueRole("cont_slope"), val |-> Cont_slope],
                               xlabel |-> TrueRole("cont_zp"),
                               ylabel |-> TrueRole("cont_slope"),
                               xlim |-> <<nb.popt[1], nb.err[1]>>,
                               ylim |-> <<nb.popt[2], nb.err[2]>>]>>]

\* the astropy model cell: the name model is rebound to the compound model
NbAstropyModel ==
    /\ NbAt("amodel")
    /\ nb' = [nb EXCEPT !.pc = @ + 1, !.model = "astropy", !.amodel = <<AstropyModel>>]

\* fitter = fitting.LevMarLSQFitter(); fitmodel = fitter(model, wave, obs_flux)
NbFitter ==
    /\ NbAt("fitter")
    /\ \E m \in LevMarLSQFitter(nb.amodel[1]) :
          nb' = [nb EXCEPT !.pc = @ + 1, !.fitmodel = <<m>>,
                   !.amsetup = <<[form |-> {AstropyRole(n) : n \in ParamNames},
                                  y |-> nb.obs,
                                  init |-> ByRoleAstropy(nb.amodel[1]),
                                  sigma |-> AstropySigma(nb.obs)]>>]

\* the constrained re-fit: newmodel = fitter(fitmodel, wave, obs_flux)
NbConstrain ==
    /\ NbAt("constrain")
    /\ LET c == Constrain(nb.fitmodel[1], nb.center)
       IN \E m \in LevMarLSQFitter(c) :
             nb' = [nb EXCEPT !.pc = @ + 1, !.fitmodel = <<c>>, !.newmodel = <<m>>]

\* Cell -> Run All, once more, in the same kernel
NbRunAllAgain ==
    /\ nb.pc = Len(NbCells) + 1
    /\ nb' = [nb EXCEPT !.pc = 1]
    /\ UNCHANGED <<g, figs, widgets, drag, ev, invoked, draws, err, pc, used, lastReg>>

UIInit ==
    /\ g = [image |-> FALSE, ext |-> -1, sp |-> 0, p |-> None, fig |-> None,
            line |-> None, line2 |-> None]
    /\ figs = [c \in FigCells |-> NoFigure]
    /\ widgets = [w \in Widgets |-> NoWidget]
    /\ drag = NoDrag
    /\ ev = NoEvent
    /\ invoked = <<>>
    /\ draws = <<>>
    /\ err = None
    /\ pc = 1
    /\ used = 0
    /\ lastReg = None

Init ==
    /\ UIInit
    /\ nb = NbInit

Next ==
    \/ RunLoad
    \/ RunShow
    \/ RunEvent
    \/ RunOutput
    \/ RunGui
    \/ RunSlice
    \/ RunZaxis
    \/ RunQuery
    \/ RunSpec0
    \/ RunSpec1
    \/ RunSpec2
    \/ RunAllAgain
    \/ \E f \in FigCells, k \in Keys, inside \in BOOLEAN : KeyPress(f, k, inside)
    \/ \E w \in Sliders : \E v \in Stops(w) : DragMove(w, v)
    \/ Release
    \/ Toggle

Spec == Init /\ [][Next]_vars

FitNext ==
    \/ NbData
    \/ NbDefModel
    \/ NbCurveFit
    \/ NbPcor
    \/ NbEllipse
    \/ NbAstropyModel
    \/ NbFitter
    \/ NbConstrain
    \/ NbRunAllAgain

FitSpec == Init /\ [][FitNext]_vars

(***************************************************************************)
(* Claims about the interactive notebook.                                  *)
(***************************************************************************)
Cbs(inv) == [i \in DOMAIN inv |-> inv[i].cb]

\* the callback each cell registers on the object it creates
Registered(o) ==
    CASE o = "event"    -> <<"on_key_press">>
      [] o = "output"   -> <<"on_key_press_out">>
      [] o = "gui"      -> <<"G.on_key_press">>
      [] o = "zslider"  -> <<"update">>
      [] o = "s1slider" -> <<"new_spec">>
      [] o = "s2slider" -> <<"new_spec">>
      [] o = "chk_box"  -> <<"display_lines">>
      [] OTHER          -> <<>>

\* C1 as stated: every UI event that has a callback registered for it - a key
\* press on a figure, a completed slider drag, a checkbox toggle - runs that
\* callback exactly once, and a thumb position passed through runs none.
C1_EveryEventOnce ==
    /\ ev.kind = "move" => invoked = <<>>
    /\ ev.kind \in {"key", "release", "toggle"} /\ Registered(ev.target) # <<>>
           => Len(invoked) = 1

\* C1, amended: a key press and a checkbox toggle run the registered callback
\* once; a completed drag runs the slider's callback once, with the value at the
\* release, when that value differs from the value the slider had, and not at
\* all when the thumb is released on the value the slider already has; a thumb
\* position passed through runs no callback.  The callback has finished (its
\* draw is issued or its exception raised) when the event has been delivered.
C1_OncePerChange ==
    /\ ev.kind = "move" => invoked = <<>>
    /\ ev.kind \in {"key", "toggle"} /\ Registered(ev.target) # <<>>
           => Len(invoked) = 1
    /\ ev.kind = "release" /\ ev.new # ev.old
           => /\ invoked = <<[cb |-> Registered(ev.target)[1], new |-> ev.new]>>
              /\ widgets[ev.target].value = ev.new
              /\ err = None => Len(draws) = 1
    /\ ev.kind = "release" /\ ev.new = ev.old
           => invoked = <<>> /\ draws = <<>>

\* a drag through two positions, released on a new value: one call
C1_Witness ==
    /\ ev.kind = "release"
    /\ ev.moves >= 2
    /\ ev.new # ev.old
    /\ Len(invoked) = 1
    /\ invoked[1].new = ev.new

\* C2 as stated: the key-press callback that runs on a key press is the one
\* registered most recently.
C2_LatestRegisteredRuns ==
    ev.kind = "key" /\ invoked # <<>> => Cbs(invoked) = <<lastReg>>

\* C2, amended: the callback that runs on a UI event is the one registered
\* most recently on the figure or widget that receives the event (each cell
\* registers its callback on a figure or widget it has just created); a
\* figure with no registration runs nothing.
C2_LatestOnTargetRuns ==
    (ev.kind \in {"key", "toggle"} \/ (ev.kind = "release" /\ ev.new # ev.old))
        => LET hs == IF ev.target \in FigCells THEN figs[ev.target].handlers
                     ELSE widgets[ev.target].handlers
           IN /\ hs = Registered(ev.target)
              /\ Cbs(invoked) = IF hs = <<>> THEN <<>> ELSE <<hs[Len(hs)]>>

\* a key press on the first event figure after a later cell has registered
\* another key-press callback: the first figure's own callback runs
C2_Witness ==
    /\ ev.kind = "key"
    /\ ev.target = "event"
    /\ lastReg = "G.on_key_press"
    /\ Cbs(invoked) = <<"on_key_press">>

\* the artists of an axes, without their data
Artists(F, f) == [i \in DOMAIN F[f].lines |-> <<F[f].lines[i].role, F[f].lines[i].from>>]
Plotted(F, f) == Cardinality({i \in DOMAIN F[f].lines : F[f].lines[i].role # "mark"})

\* C3: a slider value change (a thumb move or a release, whatever callback it
\* runs) leaves every axes with the artists it had: no line is added or
\* removed, only data replaced; and the Z-axis and first Spectrum axes hold
\* the one line, the checkbox axes the two lines, that their cells plotted.
C3_SlidersKeepArtists ==
    [][ /\ drag' # drag => \A f \in FigCells : Artists(figs', f) = Artists(figs, f)
        /\ figs'["zaxis"].exists => Plotted(figs', "zaxis") = 1
        /\ figs'["spec1"].exists => Plotted(figs', "spec1") = 1
        /\ figs'["spec2"].exists => Plotted(figs', "spec2") = 2 ]_vars

\* the checkbox cell's slider has loaded another spectrum into the line
C3_Witness ==
    /\ ev.kind = "release"
    /\ ev.target = "s2slider"
    /\ err = None
    /\ Len(draws) = 1
    /\ figs["spec2"].lines[1].ysrc = Src("flux", ev.new)
    /\ ev.new # 0
    /\ Len(figs["spec2"].lines) = 2

\* C4: at every canvas draw issued by update or new_spec the plotted line's x
\* and y data have the same length, and for new_spec both come from the
\* spectrum sp[change.new].
C4_DrawnLineConsistent ==
    \A i \in DOMAIN draws :
        /\ draws[i].by \in {"update", "new_spec"} => draws[i].xlen = draws[i].ylen
        /\ draws[i].by = "new_spec"
               => draws[i].xsrc = Src("wave", ev.new) /\ draws[i].ysrc = Src("flux", ev.new)

\* the index a slider callback is passed is no valid index of what it indexes
InvalidIndex(G, c) ==
    \/ c.cb = "update" /\ c.new \notin 0..(ImgRows - 1)
    \/ c.cb = "new_spec" /\ c.new \notin 0..(G.sp - 1)

\* C5: a slider callback passed a value that is no valid index raises
\* IndexError out of the event, is not run again, issues no draw, and leaves
\* every plotted line as it was before the event.
C5_BadIndexLeavesLines ==
    [][ \A i \in DOMAIN invoked' :
            (drag' # drag /\ InvalidIndex(g, invoked'[i]))
                => /\ err' = "IndexError"
                   /\ Len(invoked') = 1
                   /\ draws' = <<>>
                   /\ figs' = figs ]_vars

\* the Z-axis slider released on its maximum, zl, one past the last row
C5_Witness ==
    /\ ev.kind = "release"
    /\ ev.target = "zslider"
    /\ ev.new = ImgRows
    /\ Cbs(invoked) = <<"update">>
    /\ err = "IndexError"

\* the Spectrum slider released on an index the re-run query no longer has
C5_WitnessSpectrum ==
    /\ ev.kind = "release"
    /\ ev.target = "s1slider"
    /\ Cbs(invoked) = <<"new_spec">>
    /\ err = "IndexError"

\* C6: every red point is in the axes of the image on which 'm' was pressed
\* (a key press with 'm' adds its point to the image axes, any other key adds
\* none), so each image shows as many points as 'm' presses it received.
C6_MarksOnPressedImage ==
    \A f \in FigCells : \A i \in DOMAIN figs[f].lines :
        figs[f].lines[i].role = "mark" => figs[f].lines[i].from = f

(***************************************************************************)
(* Claims about the model-fitting notebook.                                *)
(***************************************************************************)
\* the cell that runs next is the one after cell c of this pass
NbAfter(c) == nb.pc > 1 /\ NbCells[nb.pc - 1] = c

Square(m, n) == Len(m) = n /\ \A i \in DOMAIN m : Len(m[i]) = n

ParamOrder == <<"zeropoint", "slope", "amplitude", "center", "width">>

\* C8: the order of model's parameters after x is the order of the parameter
\* vector wherever it is used - p0 (whose values are those the astropy cell
\* gives by name), popt, err, the rows and columns of pcov and pcor - and the
\* ellipse cell's pcov[0:2,0:2], popt[0], popt[1], err[0], err[1] are the
\* entries of the quantities it labels and marks: cont_zp on x, cont_slope on y.
C8_ParameterOrder ==
    /\ nb.popt # <<>> =>
          /\ \A i \in DOMAIN nb.popt :
                /\ nb.popt[i].role = ParamOrder[i]
                /\ nb.err[i].role = ParamOrder[i]
                /\ \A j \in DOMAIN nb.pcov[i] :
                      nb.pcov[i][j] = [row |-> ParamOrder[i], col |-> ParamOrder[j]]
          /\ nb.cfsetup[1].init = ByRoleAstropy(AstropyModel)
    /\ nb.pcor # <<>> =>
          \A i \in DOMAIN nb.pcor : \A j \in DOMAIN nb.pcor[i] :
              nb.pcor[i][j] = [num |-> [row |-> ParamOrder[i], col |-> ParamOrder[j]],
                               den |-> <<[role |-> ParamOrder[i]], [role |-> ParamOrder[j]]>>]
    /\ nb.ellipse # <<>> =>
          LET e == nb.ellipse[1]
          IN /\ e.x.role = "zeropoint" /\ e.xlabel = e.x.role /\ e.vline.role = e.x.role
             /\ e.y.role = "slope" /\ e.ylabel = e.y.role /\ e.hline.role = e.y.role
             /\ e.cov = <<<<[row |-> "zeropoint", col |-> "zeropoint"],
                            [row |-> "zeropoint", col |-> "slope"]>>,
                          <<[row |-> "slope", col |-> "zeropoint"],
                            [row |-> "slope", col |-> "slope"]>>>>
             /\ e.xlim = <<e.x, [role |-> "zeropoint"]>>
             /\ e.ylim = <<e.y, [role |-> "slope"]>>

C8_Witness == NbAfter("ellipse") /\ nb.ellipse # <<>> /\ nb.pcor # <<>>

\* C9: whatever the data, the model the constrained re-fit returns has mean_0
\* equal to center as the first cell defined it and amplitude_0 >= 0.
C9_ConstraintsHold ==
    nb.newmodel # <<>> =>
        /\ nb.newmodel[1].value["mean_0"] = Center
        /\ nb.newmodel[1].value["mean_0"] = nb.center
        /\ nb.newmodel[1].value["amplitude_0"] >= 0

\* the re-fit of a model whose first fit put the line elsewhere, with the
\* amplitude held at its lower limit
C9_Witness ==
    /\ NbAfter("constrain")
    /\ nb.newmodel[1].value["amplitude_0"] = 0
    /\ nb.newmodel[1].value["mean_0"] = Center
    /\ nb.width # Width

\* C10: the astropy fit is set up as the curve_fit fit of the same pass was:
\* the same model, the same data, the same initial values, the same
\* per-channel uncertainties.
C10_SameFitSetup ==
    NbAfter("fitter") => nb.amsetup[1] = nb.cfsetup[1]

\* the two set-ups differ in the uncertainties only
C10_SameButSigma ==
    NbAfter("fitter") =>
        [nb.amsetup[1] EXCEPT !.sigma = nb.cfsetup[1].sigma] = nb.cfsetup[1]

====
